---- MODULE Spec2Model ----
(***************************************************************************)
(* Retrieval engine and RAG orchestration of the CHRIST repository:        *)
(*   src/src/retrieval/vector_store.py   VectorStore, HybridRetriever      *)
(*   src/src/retrieval/llm_integration.py LLMProvider, RAGSystem           *)
(*   src/src/intelligence/llm.py          OllamaLLM, RAGSystem             *)
(*   src/resurrections/resurrection_consciousness.py  query                *)
(*   src/demos/christ_terminal.py         _process_chat_message            *)
(*                                                                         *)
(* The vector store is modelled in the configuration in which neither      *)
(* chromadb nor sentence_transformers can be imported: documents live in   *)
(* memory_store and embeddings come from the SHA-256 fallback.             *)
(*                                                                         *)
(* Fixed point: an embedding component is the digest byte b (the code      *)
(* stores b/255.0; cosine similarity is invariant under that scaling), a   *)
(* similarity or keyword score is in thousandths, a semantic weight is in  *)
(* tenths, a fused score is in ten-thousandths.                            *)
(***************************************************************************)
EXTENDS Integers, Sequences, FiniteSets, TLC

VARIABLES
    memory_store,           \* VectorStore.memory_store: ids, embeddings, documents, metadatas
    conversation_history,   \* ChristTerminal.conversation_history
    events,                 \* the rows of the Event table behind db_manager
    call                    \* the call that has just returned to the caller, or Idle

vars == <<memory_store, conversation_history, events, call>>

-----------------------------------------------------------------------------
(* Bounds of the model *)

MaxDocs == 2        \* documents held by the store in Spec
MaxBatch == 2       \* documents passed to one add_documents call
MaxK == 2           \* largest k passed to search / retrieve in Spec
MaxCorpus == 4      \* documents held by the store in SpecCorpus
MaxCorpusK == 3     \* largest k passed to search / retrieve in SpecCorpus

(* Program constants *)

EmbeddingDimension == 384   \* VectorStore.embedding_dimension without sentence_transformers
DigestSize == 32            \* length of hashlib.sha256(...).digest()

-----------------------------------------------------------------------------
(* Values *)

None == "None"              \* Python's None; also what dict.get returns for a missing key

NoArg == <<>>               \* an optional argument that was omitted (None)
Some(x) == <<x>>            \* an optional argument that was supplied
IsSupplied(arg) == Len(arg) = 1
ValueOf(arg) == arg[1]

Range(s) == {s[i] : i \in 1..Len(s)}
Min(a, b) == IF a <= b THEN a ELSE b
Max(a, b) == IF a >= b THEN a ELSE b

SeqsUpTo(S, n) == UNION {[1..m -> S] : m \in 0..n}
SeqsOfLen(S, n) == [1..n -> S]

(* Texts that are ingested and texts that are asked *)
Marker == "zzzqx7 unique marker"
Texts == {Marker, "love your enemies", "love is patient", "let love be genuine"}
StoreTexts == {Marker, "love your enemies"}
Queries == {"zzzqx7", "love", "unique marker"}
EmptyText == ""
(* the sentence "blessed are the meek for they shall inherit the earth "   *)
(* written 39 times over, 2106 characters; the string below stands for it  *)
LongText == "blessed are the meek for they shall inherit the earth (39 times)"
(* the queries RAGSystem.reflect builds: with no argument, and with        *)
(* focus_areas=['love']                                                    *)
ReflectQueries == {"Generate insights about", "Generate insights about focusing on love"}

AllTexts == Texts \cup Queries \cup {EmptyText, LongText} \cup ReflectQueries

(* hashlib.sha256(text.encode()).digest(), byte by byte *)
Sha256Digest ==
    "zzzqx7 unique marker" :> <<230, 66, 208, 204, 75, 195, 236, 15, 166, 204, 239, 149, 209, 207, 208, 57, 19, 190, 41, 157, 194, 32, 136, 232, 173, 102, 65, 6, 253, 41, 177, 88>> @@
    "love your enemies" :> <<112, 109, 100, 73, 53, 245, 131, 64, 219, 100, 177, 127, 128, 255, 0, 244, 126, 158, 93, 78, 33, 149, 60, 27, 208, 213, 191, 216, 78, 200, 181, 134>> @@
    "love is patient" :> <<169, 232, 159, 131, 244, 45, 57, 102, 154, 172, 90, 96, 181, 27, 155, 233, 78, 238, 248, 232, 131, 91, 9, 59, 125, 210, 96, 180, 84, 171, 204, 148>> @@
    "let love be genuine" :> <<40, 88, 45, 247, 134, 189, 121, 159, 200, 137, 172, 185, 114, 173, 3, 6, 51, 74, 170, 202, 196, 154, 172, 138, 108, 133, 233, 220, 224, 113, 135, 11>> @@
    "zzzqx7" :> <<153, 2, 9, 211, 248, 142, 104, 64, 190, 61, 184, 116, 158, 113, 226, 40, 81, 160, 235, 104, 16, 165, 73, 107, 203, 203, 190, 101, 102, 209, 192, 101>> @@
    "love" :> <<104, 111, 116, 106, 149, 182, 248, 54, 215, 215, 5, 103, 195, 2, 195, 249, 235, 181, 238, 13, 239, 61, 18, 32, 238, 157, 78, 159, 52, 245, 225, 49>> @@
    "unique marker" :> <<249, 100, 102, 202, 106, 93, 183, 235, 141, 224, 192, 236, 72, 183, 13, 220, 76, 158, 46, 146, 82, 190, 19, 84, 210, 29, 199, 183, 0, 69, 156, 208>> @@
    "" :> <<227, 176, 196, 66, 152, 252, 28, 20, 154, 251, 244, 200, 153, 111, 185, 36, 39, 174, 65, 228, 100, 155, 147, 76, 164, 149, 153, 27, 120, 82, 184, 85>> @@
    LongText :> <<188, 79, 229, 186, 130, 219, 142, 113, 55, 169, 195, 215, 56, 14, 232, 224, 110, 47, 184, 22, 175, 145, 216, 36, 211, 43, 72, 91, 188, 135, 252, 245>> @@
    "Generate insights about" :> <<154, 243, 71, 32, 88, 128, 132, 221, 177, 130, 59, 45, 232, 131, 251, 243, 197, 108, 84, 38, 146, 127, 208, 238, 162, 151, 119, 228, 180, 117, 44, 130>> @@
    "Generate insights about focusing on love" :> <<150, 94, 86, 144, 117, 69, 102, 236, 9, 9, 251, 97, 222, 49, 224, 42, 147, 90, 46, 21, 45, 152, 210, 119, 9, 62, 46, 180, 184, 158, 87, 4>>

(* set(text.lower().split()) *)
LowerWords(text) ==
    CASE text = "zzzqx7 unique marker" -> {"zzzqx7", "unique", "marker"}
      [] text = "love your enemies"    -> {"love", "your", "enemies"}
      [] text = "love is patient"      -> {"love", "is", "patient"}
      [] text = "let love be genuine"  -> {"let", "love", "be", "genuine"}
      [] text = "zzzqx7"               -> {"zzzqx7"}
      [] text = "love"                 -> {"love"}
      [] text = "unique marker"        -> {"unique", "marker"}
      [] text = ""                     -> {}
      [] text = LongText               -> {"blessed", "are", "the", "meek", "for", "they",
                                           "shall", "inherit", "earth"}

(* Metadata: a dict over MetaKeys; a key that is absent maps to None, which *)
(* is what metadata.get(key) yields for it.                                *)
MetaKeys == {"category", "timestamp"}
Categories == {"teachings", "daily_life"}
Timestamps == {"2024-01-15T10:00:00"}
EmptyDict == [key \in MetaKeys |-> None]
SuppliedMetadata == {[EmptyDict EXCEPT !["category"] = c] : c \in Categories \cup {None}}

(* Filters: None / {} (both falsy) or an exact-match dict on category *)
NoFilter == EmptyDict
Filters == {NoFilter} \cup {[EmptyDict EXCEPT !["category"] = c] : c \in Categories}

(* Ids: supplied by the caller, or str(uuid.uuid4()) *)
SuppliedIds == {"id1"}
UuidPool == <<"uuid-1", "uuid-2", "uuid-3", "uuid-4", "uuid-5", "uuid-6", "uuid-7", "uuid-8">>

-----------------------------------------------------------------------------
(* VectorStore._embed_texts, fallback branch, for one text *)

(* a padding that adds nothing *)
PadNothing(v, n) == v

(* np.pad(embedding, (0, n - len(embedding))) *)
Pad(v, n) == v \o [i \in 1..(n - Len(v)) |-> 0]

embed_text(text) ==
    LET hash_bytes == Sha256Digest[text]
        embedding == SubSeq(hash_bytes, 1, Min(Len(hash_bytes), EmbeddingDimension))
    IN  IF Len(embedding) < EmbeddingDimension
        THEN Pad(embedding, EmbeddingDimension)
        ELSE embedding

(* an embedding that also depends on the position of the text in its batch *)
embed_texts_by_position(texts) ==
    [i \in 1..Len(texts) |->
        [embed_text(texts[i]) EXCEPT ![1] = (@ + i) % 256]]

embed_texts(texts) == [i \in 1..Len(texts) |-> embed_text(texts[i])]

-----------------------------------------------------------------------------
(* Cosine similarity as VectorStore._numpy_search computes it *)

(* sum of a[i] * b[i] for lo <= i <= hi *)
RECURSIVE DotRange(_, _, _, _)
DotRange(a, b, lo, hi) ==
    IF lo > hi THEN 0
    ELSE IF lo = hi THEN a[lo] * b[lo]
    ELSE LET mid == (lo + hi) \div 2
         IN  DotRange(a, b, lo, mid) + DotRange(a, b, mid + 1, hi)

Dot(a, b) == DotRange(a, b, 1, Len(a))

ISqrt(n) == CHOOSE r \in 0..1500 : r * r <= n /\ (r + 1) * (r + 1) > n

(* np.linalg.norm, rounded down to a whole number of byte units *)
Norm(a) == ISqrt(Dot(a, a))

(* dot(e / norm(e), q / norm(q)), in thousandths *)
CosineSimilarity(e, q) == (Dot(e, q) * 1000) \div (Norm(e) * Norm(q))

Vectors == {embed_text(t) : t \in AllTexts}

(* The similarities of the vectors the model can hold, computed once *)
Similarity == [e \in Vectors, q \in Vectors |-> CosineSimilarity(e, q)]

-----------------------------------------------------------------------------
(* Python list and slice helpers *)

Reverse(s) == [i \in 1..Len(s) |-> s[Len(s) + 1 - i]]

(* s[-k:] : the whole list when k = 0 *)
TailSlice(s, k) == IF k = 0 THEN s ELSE SubSeq(s, Max(Len(s) - k, 0) + 1, Len(s))

(* s[:k] *)
HeadSlice(s, k) == SubSeq(s, 1, Min(k, Len(s)))

(* the elements of a set of numbers in increasing order *)
Ascending(S) ==
    CHOOSE f \in [1..Cardinality(S) -> S] : \A i, j \in 1..Cardinality(S) : i < j => f[i] < f[j]

(* list.index(x): position of the first occurrence *)
IndexOf(s, x) == CHOOSE i \in 1..Len(s) : s[i] = x /\ \A j \in 1..(i - 1) : s[j] # x

(* list.pop(): the last element goes, whatever the index *)
PopLast(s, idx) == SubSeq(s, 1, Len(s) - 1)

(* list.pop(idx) on a valid index *)
Pop(s, idx) == SubSeq(s, 1, idx - 1) \o SubSeq(s, idx + 1, Len(s))

(* np.argsort(values): every order quicksort may give to equal values *)
ArgSorts(values) ==
    LET n == Len(values)
    IN  {p \in [1..n -> 1..n] :
            /\ \A i, j \in 1..n : i # j => p[i] # p[j]
            /\ \A i \in 1..(n - 1) : values[p[i]] <= values[p[i + 1]]}

-----------------------------------------------------------------------------
(* VectorStore, in-memory fallback *)

EmptyStore == [ids |-> <<>>, embeddings |-> <<>>, documents |-> <<>>, metadatas |-> <<>>]

(* str(uuid.uuid4()) for each document: values not met before *)
RECURSIVE uuid4s(_, _)
uuid4s(used, n) ==
    IF n = 0 THEN <<>>
    ELSE LET i == CHOOSE i \in 1..Len(UuidPool) :
                    /\ UuidPool[i] \notin used
                    /\ \A j \in 1..(i - 1) : UuidPool[j] \in used
         IN  <<UuidPool[i]>> \o uuid4s(used \cup {UuidPool[i]}, n - 1)

(* the loop that stamps every metadata dict that has no timestamp *)
Stamp(metadata, now) ==
    IF metadata["timestamp"] = None THEN [metadata EXCEPT !["timestamp"] = now] ELSE metadata

(* add_documents without its "if not documents: return []" *)
add_documents_unguarded(store, documents, metadatas, ids, now) ==
    LET new_ids == IF IsSupplied(ids) THEN ValueOf(ids)
                   ELSE uuid4s(Range(store.ids), Len(documents))
        embeddings == embed_texts(documents)
        dicts == IF IsSupplied(metadatas) THEN ValueOf(metadatas)
                 ELSE [i \in 1..Len(documents) |-> EmptyDict]
        stamped == [i \in 1..Len(dicts) |-> Stamp(dicts[i], now)]
    IN  [store |-> [ids        |-> store.ids \o new_ids,
                    embeddings |-> store.embeddings \o embeddings,
                    documents  |-> store.documents \o documents,
                    metadatas  |-> store.metadatas \o stamped],
         ret |-> new_ids]

(* VectorStore.add_documents: the store afterwards and the returned ids *)
add_documents(store, documents, metadatas, ids, now) ==
    IF documents = <<>>
    THEN [store |-> store, ret |-> <<>>]
    ELSE LET new_ids == IF IsSupplied(ids) THEN ValueOf(ids)
                        ELSE uuid4s(Range(store.ids), Len(documents))
             embeddings == embed_texts(documents)
             dicts == IF IsSupplied(metadatas) THEN ValueOf(metadatas)
                      ELSE [i \in 1..Len(documents) |-> EmptyDict]
             stamped == [i \in 1..Len(dicts) |-> Stamp(dicts[i], now)]
         IN  [store |-> [ids        |-> store.ids \o new_ids,
                         embeddings |-> store.embeddings \o embeddings,
                         documents  |-> store.documents \o documents,
                         metadatas  |-> store.metadatas \o stamped],
              ret |-> new_ids]

(* VectorStore.delete: one id after the other; a pop beyond the end of a   *)
(* list raises IndexError and leaves the lists popped so far as they are   *)
RECURSIVE delete(_, _)
delete(store, ids) ==
    IF ids = <<>> THEN [store |-> store, raised |-> FALSE]
    ELSE LET id_to_remove == Head(ids)
         IN  IF id_to_remove \notin Range(store.ids)
             THEN delete(store, Tail(ids))
             ELSE LET idx == IndexOf(store.ids, id_to_remove)
                      s1 == [store EXCEPT !.ids = Pop(@, idx)]
                  IN  IF idx > Len(store.embeddings)
                      THEN [store |-> s1, raised |-> TRUE]
                      ELSE LET s2 == [s1 EXCEPT !.embeddings = Pop(@, idx),
                                                !.documents = Pop(@, idx)]
                           IN  IF idx > Len(store.metadatas)
                               THEN [store |-> s2, raised |-> TRUE]
                               ELSE delete([s2 EXCEPT !.metadatas = Pop(@, idx)], Tail(ids))

(* VectorStore.clear *)
clear(store) == EmptyStore

(* if filter: ... all(metadata.get(key) == value for key, value in filter.items()) *)
IsTruthy(filter) == filter # EmptyDict

(* a filter that only asks whether the key is there *)
MatchesKeyPresent(metadata, filter) ==
    \A key \in MetaKeys : filter[key] # None => metadata[key] # None

Matches(metadata, filter) ==
    \A key \in MetaKeys : filter[key] # None => metadata[key] = filter[key]

Returned(results) == [raised |-> FALSE, results |-> results]
Raised == [raised |-> TRUE, results |-> <<>>]

(* VectorStore._numpy_search below its empty-store guard: similarities,    *)
(* filter, argsort, top k, formatting; the outcomes the call can have      *)
(* a ranking that cuts to k first and filters what is left *)
numpy_rank_cut_first(store, query_embedding, k, filter) ==
    LET n == Len(store.embeddings)
        similarities == [i \in 1..n |-> Similarity[store.embeddings[i], query_embedding]]
        Keep(idx) == Matches(store.metadatas[idx], filter)
    IN  {Returned([j \in 1..Len(SelectSeq(Reverse(TailSlice(argsort, k)), Keep)) |->
            LET original_idx == SelectSeq(Reverse(TailSlice(argsort, k)), Keep)[j]
            IN  [id       |-> store.ids[original_idx],
                 document |-> store.documents[original_idx],
                 metadata |-> store.metadatas[original_idx],
                 score    |-> similarities[original_idx]]])
         : argsort \in ArgSorts(similarities)}

numpy_rank(store, query_embedding, k, filter) ==
    LET n == Len(store.embeddings)
        similarities == [i \in 1..n |-> Similarity[store.embeddings[i], query_embedding]]
        valid_indices ==
            Ascending({i \in 1..Len(store.metadatas) : Matches(store.metadatas[i], filter)})
    IN  IF IsTruthy(filter) /\ valid_indices = <<>>
        THEN {Returned(<<>>)}
        ELSE IF IsTruthy(filter) /\ \E j \in 1..Len(valid_indices) : valid_indices[j] > n
        THEN {Raised}
        ELSE
        LET filtered_indices == IF IsTruthy(filter) THEN valid_indices ELSE [i \in 1..n |-> i]
            kept == [j \in 1..Len(filtered_indices) |-> similarities[filtered_indices[j]]]
            Format(top_k_indices) ==
                IF \E j \in 1..Len(top_k_indices) :
                       \/ filtered_indices[top_k_indices[j]] > Len(store.ids)
                       \/ filtered_indices[top_k_indices[j]] > Len(store.metadatas)
                THEN Raised
                ELSE Returned([j \in 1..Len(top_k_indices) |->
                        LET original_idx == filtered_indices[top_k_indices[j]]
                        IN  [id       |-> store.ids[original_idx],
                             document |-> store.documents[original_idx],
                             metadata |-> store.metadatas[original_idx],
                             score    |-> kept[top_k_indices[j]]]])
        IN  {Format(Reverse(TailSlice(argsort, k))) : argsort \in ArgSorts(kept)}

(* a _numpy_search without the guard: numpy raises on the empty array *)
numpy_search_unguarded(store, query_embedding, k, filter) ==
    IF store.embeddings = <<>>
    THEN {Raised}
    ELSE numpy_rank(store, query_embedding, k, filter)

(* VectorStore._numpy_search *)
numpy_search(store, query_embedding, k, filter) ==
    IF store.embeddings = <<>>
    THEN {Returned(<<>>)}
    ELSE numpy_rank(store, query_embedding, k, filter)

(* VectorStore.search, collection is None *)
search(store, query, k, filter) ==
    numpy_search(store, embed_texts(<<query>>)[1], k, filter)

-----------------------------------------------------------------------------
(* HybridRetriever *)

SemanticWeights == {0, 3, 7, 10}    \* semantic_weight 0.0, 0.3, 0.7 (the default), 1.0

(* lambda x: x['score'] *)
ScoreOf(result) == result.score

(* list.sort(key=lambda x: x['score'], reverse=True): stable, equal scores *)
(* keep their order                                                        *)
SortByScoreDescending(results) ==
    LET n == Len(results)
        p == CHOOSE p \in [1..n -> 1..n] :
                /\ \A i, j \in 1..n : i # j => p[i] # p[j]
                /\ \A i, j \in 1..n : i < j =>
                       \/ ScoreOf(results[p[i]]) > ScoreOf(results[p[j]])
                       \/ ScoreOf(results[p[i]]) = ScoreOf(results[p[j]]) /\ p[i] < p[j]
    IN  [i \in 1..n |-> results[p[i]]]

(* HybridRetriever._keyword_search over memory_store *)
keyword_search(store, query, k, filter) ==
    LET query_words == LowerWords(query)
        Admitted(i) == ~(IsTruthy(filter) /\ ~Matches(store.metadatas[i], filter))
        KeywordScore(i) ==
            IF query_words = {} THEN 0
            ELSE (Cardinality(query_words \cap LowerWords(store.documents[i])) * 1000)
                     \div Cardinality(query_words)
        n == Len(store.documents)
        \* metadatas[i] and ids[i] raise IndexError when the lists are shorter
        reads_beyond ==
            \E i \in 1..n :
                \/ IsTruthy(filter) /\ i > Len(store.metadatas)
                \/ /\ i <= Len(store.metadatas) => Admitted(i)
                   /\ KeywordScore(i) > 0
                   /\ (i > Len(store.ids) \/ i > Len(store.metadatas))
        hits == Ascending({i \in 1..n : Admitted(i) /\ KeywordScore(i) > 0})
        results == [j \in 1..Len(hits) |->
                        [id       |-> store.ids[hits[j]],
                         document |-> store.documents[hits[j]],
                         metadata |-> store.metadatas[hits[j]],
                         score    |-> KeywordScore(hits[j])]]
    IN  IF reads_beyond THEN Raised
        ELSE Returned(HeadSlice(SortByScoreDescending(results), k))

(* doc_scores[doc_id] = entry: a known key keeps its place and takes the new value *)
PutEntry(doc_scores, entry) ==
    IF \E i \in 1..Len(doc_scores) : doc_scores[i].id = entry.id
    THEN [i \in 1..Len(doc_scores) |->
            IF doc_scores[i].id = entry.id THEN entry ELSE doc_scores[i]]
    ELSE Append(doc_scores, entry)

RECURSIVE AddSemantic(_, _, _)
AddSemantic(doc_scores, semantic_results, semantic_weight) ==
    IF semantic_results = <<>> THEN doc_scores
    ELSE LET result == Head(semantic_results)
         IN  AddSemantic(
                PutEntry(doc_scores,
                    [id |-> result.id, document |-> result.document,
                     metadata |-> result.metadata,
                     semantic_score |-> result.score,
                     keyword_score |-> 0,
                     score |-> result.score * semantic_weight]),
                Tail(semantic_results), semantic_weight)

RECURSIVE AddKeyword(_, _, _)
AddKeyword(doc_scores, keyword_results, semantic_weight) ==
    IF keyword_results = <<>> THEN doc_scores
    ELSE LET result == Head(keyword_results)
             keyword_weight == 10 - semantic_weight
             known == \E i \in 1..Len(doc_scores) : doc_scores[i].id = result.id
             old == doc_scores[CHOOSE i \in 1..Len(doc_scores) : doc_scores[i].id = result.id]
         IN  AddKeyword(
                IF known
                THEN PutEntry(doc_scores,
                        [old EXCEPT !.keyword_score = result.score,
                                    !.score = old.semantic_score * semantic_weight
                                              + result.score * keyword_weight])
                ELSE PutEntry(doc_scores,
                        [id |-> result.id, document |-> result.document,
                         metadata |-> result.metadata,
                         semantic_score |-> 0,
                         keyword_score |-> result.score,
                         score |-> result.score * keyword_weight]),
                Tail(keyword_results), semantic_weight)

(* HybridRetriever._merge_results *)
merge_results(semantic_results, keyword_results, semantic_weight) ==
    LET doc_scores == AddKeyword(AddSemantic(<<>>, semantic_results, semantic_weight),
                                 keyword_results, semantic_weight)
    IN  SortByScoreDescending(doc_scores)

(* HybridRetriever.retrieve: the outcomes the call can have *)
retrieve(store, query, k, semantic_weight, filter) ==
    LET keyword == keyword_search(store, query, k * 2, filter)
    IN  {IF semantic.raised \/ keyword.raised THEN Raised
         ELSE Returned(HeadSlice(
                merge_results(semantic.results, keyword.results, semantic_weight), k))
         : semantic \in search(store, query, k * 2, filter)}

(* HybridRetriever.retrieve when the collection is held by ChromaDB: the   *)
(* store object has no memory_store attribute, so _keyword_search returns  *)
(* no result; the semantic side is collection.query with n_results = k*2,  *)
(* scored 1 - cosine distance                                              *)
retrieve_chromadb(store, query, k, semantic_weight, filter) ==
    {Returned(HeadSlice(merge_results(semantic.results, <<>>, semantic_weight), k))
     : semantic \in search(store, query, k * 2, filter)}

-----------------------------------------------------------------------------
(* The operations as steps of the system *)

Idle == [op |-> "none"]

Init ==
    /\ memory_store = EmptyStore
    /\ conversation_history = <<>>
    /\ events = <<>>
    /\ call = Idle

AddDocuments(documents, metadatas, ids, now) ==
    LET done == add_documents(memory_store, documents, metadatas, ids, now)
    IN  /\ call = Idle
        /\ memory_store' = done.store
        /\ call' = [op |-> "add_documents", documents |-> documents,
                    metadatas |-> metadatas, ids |-> ids, ret |-> done.ret]
        /\ UNCHANGED <<conversation_history, events>>

Delete(ids) ==
    LET done == delete(memory_store, ids)
    IN  /\ call = Idle
        /\ memory_store' = done.store
        /\ call' = [op |-> "delete", ids |-> ids, raised |-> done.raised]
        /\ UNCHANGED <<conversation_history, events>>

Clear ==
    /\ call = Idle
    /\ memory_store' = clear(memory_store)
    /\ call' = [op |-> "clear"]
    /\ UNCHANGED <<conversation_history, events>>

Search(query, k, filter) ==
    /\ call = Idle
    /\ \E outcome \in search(memory_store, query, k, filter) :
        /\ call' = [op |-> "search", query |-> query, k |-> k, filter |-> filter,
                    raised |-> outcome.raised, results |-> outcome.results]
        /\ UNCHANGED <<memory_store, conversation_history, events>>

Retrieve(query, k, semantic_weight, filter) ==
    /\ call = Idle
    /\ \E outcome \in retrieve(memory_store, query, k, semantic_weight, filter) :
        /\ call' = [op |-> "retrieve", query |-> query, k |-> k, filter |-> filter,
                    semantic_weight |-> semantic_weight,
                    raised |-> outcome.raised, results |-> outcome.results]
        /\ UNCHANGED <<memory_store, conversation_history, events>>

(* The engine is synchronous and call-blocking: the caller takes the result *)
(* of a call before it issues the next one.                                 *)
Return ==
    /\ call # Idle
    /\ call' = Idle
    /\ UNCHANGED <<memory_store, conversation_history, events>>

(* Spec: the VectorStore contract, with caller-supplied ids, metadata and filters *)

StoredIds == SuppliedIds \cup Range(UuidPool)

AddAny ==
    \E documents \in SeqsUpTo(StoreTexts, MaxBatch) :
        \E ids \in {NoArg} \cup {Some(s) : s \in SeqsOfLen(SuppliedIds, Len(documents))}
                        \cup (IF documents = <<>> THEN {Some(s) : s \in SeqsOfLen(SuppliedIds, 1)}
                              ELSE {}) :
            \E metadatas \in {NoArg} \cup
                    {Some(m) : m \in SeqsOfLen(SuppliedMetadata, Len(documents))} :
                \E now \in Timestamps :
                    /\ Len(memory_store.documents) + Len(documents) <= MaxDocs
                    /\ AddDocuments(documents, metadatas, ids, now)

DeleteAny ==
    \E ids \in SeqsUpTo(Range(memory_store.ids) \cup SuppliedIds, 2) : Delete(ids)

SearchAny ==
    \E query \in Queries, k \in 0..MaxK, filter \in Filters : Search(query, k, filter)

RetrieveAny ==
    \E query \in Queries, k \in 0..MaxK, semantic_weight \in SemanticWeights,
       filter \in Filters : Retrieve(query, k, semantic_weight, filter)

Next == AddAny \/ DeleteAny \/ Clear \/ SearchAny \/ RetrieveAny \/ Return

Spec == Init /\ [][Next]_vars

(* C13: add_documents with an empty list of texts returns an empty list   *)
(* and leaves ids, texts, metadata and embeddings as they were.            *)
C13_EmptyAddIsNoOp ==
    [][(call' # Idle /\ call'.op = "add_documents" /\ call'.documents = <<>>) =>
            /\ call'.ret = <<>>
            /\ memory_store' = memory_store]_vars

(* an empty add, with ids supplied, returned on a store that holds documents *)
C13_Witness ==
    /\ call # Idle
    /\ call.op = "add_documents"
    /\ call.documents = <<>>
    /\ IsSupplied(call.ids)
    /\ call.ret = <<>>
    /\ memory_store.documents # <<>>

(* SpecCorpus: ranking over a larger corpus; documents are added one at a  *)
(* time with generated ids and no metadata, and nothing is filtered        *)

AddText ==
    \E text \in Texts, now \in Timestamps :
        /\ Len(memory_store.documents) < MaxCorpus
        /\ AddDocuments(<<text>>, NoArg, NoArg, now)

SearchCorpus ==
    \E query \in Queries, k \in 0..MaxCorpusK : Search(query, k, NoFilter)

RetrieveCorpus ==
    \E query \in Queries, k \in 0..MaxCorpusK, semantic_weight \in SemanticWeights :
        Retrieve(query, k, semantic_weight, NoFilter)

(* retrieve over a collection held by ChromaDB; memory_store stands for    *)
(* the documents of the collection                                         *)
RetrieveChromadb ==
    /\ call = Idle
    /\ \E query \in Queries, k \in 1..MaxCorpusK, semantic_weight \in SemanticWeights :
          \E outcome \in retrieve_chromadb(memory_store, query, k, semantic_weight, NoFilter) :
              call' = [op |-> "retrieve_chromadb", query |-> query, k |-> k,
                       filter |-> NoFilter, semantic_weight |-> semantic_weight,
                       raised |-> outcome.raised, results |-> outcome.results]
    /\ UNCHANGED <<memory_store, conversation_history, events>>

NextCorpus ==
    AddText \/ Clear \/ SearchCorpus \/ RetrieveCorpus \/ RetrieveChromadb \/ Return

SpecCorpus == Init /\ [][NextCorpus]_vars

-----------------------------------------------------------------------------
(* Properties of the VectorStore contract, checked under Spec *)

SearchReturned == call.op = "search" /\ ~call.raised
RetrieveReturned == call.op = "retrieve" /\ ~call.raised

(* C1: search(query, k), with or without a filter, returns at most k       *)
(* results, for every k >= 0.                                              *)
C1_KBound == SearchReturned => Len(call.results) <= call.k

(* C5: every document returned by search or retrieve under a filter F has  *)
(* metadata equal to F on every key of F.                                  *)
C5_FilterCorrectness ==
    (SearchReturned \/ RetrieveReturned) =>
        \A i \in 1..Len(call.results) :
            \A key \in MetaKeys :
                call.filter[key] # None => call.results[i].metadata[key] = call.filter[key]

(* a filtered retrieve returned a teachings document while a daily_life    *)
(* document that shares the query's word is stored                        *)
C5_Witness ==
    /\ RetrieveReturned
    /\ call.filter["category"] = "teachings"
    /\ Len(call.results) >= 1
    /\ \E i \in 1..Len(memory_store.documents) :
          /\ memory_store.metadatas[i]["category"] = "daily_life"
          /\ LowerWords(call.query) \cap LowerWords(memory_store.documents[i]) # {}

(* the stored documents whose metadata match the filter of the call *)
MatchingIndices ==
    {i \in 1..Len(memory_store.metadatas) : Matches(memory_store.metadatas[i], call.filter)}

(* C22: the filter is applied before the cut to k: for k >= 1 a search     *)
(* under filter F returns min(k, m) results, m being the number of stored  *)
(* documents that match F.                                                 *)
C22_FilterBeforeCut ==
    (SearchReturned /\ call.k >= 1) =>
        Len(call.results) = Min(call.k, Cardinality(MatchingIndices))

(* a filtered search with k = 1 found its document although a document     *)
(* that does not match scores higher                                       *)
C22_Witness ==
    /\ SearchReturned
    /\ call.k = 1
    /\ IsTruthy(call.filter)
    /\ Len(call.results) = 1
    /\ \E i \in 1..Len(memory_store.metadatas) :
          /\ i \notin MatchingIndices
          /\ Similarity[memory_store.embeddings[i], embed_text(call.query)]
                > call.results[1].score

(* C6: the ids of the stored documents are pairwise distinct.              *)
C6_IdsDistinct ==
    \A i, j \in 1..Len(memory_store.ids) :
        i # j => memory_store.ids[i] # memory_store.ids[j]

(* C7: search on a collection that holds no documents returns an empty     *)
(* sequence and raises no error, for every query and k.                    *)
C7_EmptyCorpus ==
    (call.op = "search" /\ memory_store.documents = <<>>) =>
        ~call.raised /\ call.results = <<>>

(* a search with k > 0 and a filter ran on the empty store *)
C7_Witness ==
    /\ call.op = "search"
    /\ memory_store.documents = <<>>
    /\ call.k > 0
    /\ IsTruthy(call.filter)

-----------------------------------------------------------------------------
(* Properties of ranking and fusion, checked under SpecCorpus *)

StoredIndices == 1..Len(memory_store.documents)

(* the similarity VectorStore.search gives stored document i for the query *)
SemanticScore(i, query) == Similarity[memory_store.embeddings[i], embed_text(query)]

(* overlap count / distinct query terms of stored document i, in thousandths *)
LexicalScore(i, query) ==
    (Cardinality(LowerWords(query) \cap LowerWords(memory_store.documents[i])) * 1000)
        \div Cardinality(LowerWords(query))

(* C23: on either backend, every document retrieve returns carries the     *)
(* lexical score (distinct query terms in the document) / (distinct query  *)
(* terms), also when the collection is held by the persistent backend.     *)
C23_LexicalScoreOnBothBackends ==
    (call.op \in {"retrieve", "retrieve_chromadb"} /\ ~call.raised) =>
        \A r \in 1..Len(call.results) :
            \A i \in StoredIndices :
                call.results[r].id = memory_store.ids[i]
                => call.results[r].keyword_score = LexicalScore(i, call.query)

(* C8: after adding a document whose text contains a token that occurs in  *)
(* no other stored document, searching for that token returns the          *)
(* document's id among the top-3 results, whatever else is stored.         *)
C8_RoundTrip ==
    (SearchReturned /\ call.k = 3 /\ Cardinality(LowerWords(call.query)) = 1) =>
        \A i \in StoredIndices :
            (/\ LowerWords(call.query) \subseteq LowerWords(memory_store.documents[i])
             /\ \A j \in StoredIndices \ {i} :
                   LowerWords(call.query) \cap LowerWords(memory_store.documents[j]) = {})
            => \E r \in 1..Len(call.results) : call.results[r].id = memory_store.ids[i]

(* C9: for a query whose terms all appear in exactly one stored document,  *)
(* the fused score retrieve gives that document is >= its semantic-only    *)
(* similarity to the query (both in ten-thousandths).                      *)
C9_FusionMonotone ==
    RetrieveReturned =>
        \A i \in StoredIndices :
            (/\ LowerWords(call.query) \subseteq LowerWords(memory_store.documents[i])
             /\ \A j \in StoredIndices \ {i} :
                   ~(LowerWords(call.query) \subseteq LowerWords(memory_store.documents[j])))
            => \A r \in 1..Len(call.results) :
                   call.results[r].id = memory_store.ids[i]
                   => call.results[r].score >= 10 * SemanticScore(i, call.query)

(* C10: retrieve(q, k, w) returns the first k entries of the reference     *)
(* list: every document of the semantic top-2k or of the lexical ranking,  *)
(* scored w*semantic + (1-w)*lexical with a missing side counted as 0,     *)
(* sorted by that score in descending order (equal scores in any order).   *)
SemanticTops(query, size) ==
    {T \in SUBSET StoredIndices :
        /\ Cardinality(T) = Min(size, Len(memory_store.documents))
        /\ \A i \in T, j \in StoredIndices \ T :
              SemanticScore(i, query) >= SemanticScore(j, query)}

ReferenceScore(i, T, query, w) ==
    (IF i \in T THEN w * SemanticScore(i, query) ELSE 0) + (10 - w) * LexicalScore(i, query)

ReferenceDocs(T, query) == T \cup {i \in StoredIndices : LexicalScore(i, query) > 0}

C10_ReferenceFusion ==
    RetrieveReturned =>
        \E T \in SemanticTops(call.query, 2 * call.k) :
            \E pick \in [1..Len(call.results) -> ReferenceDocs(T, call.query)] :
                /\ Len(call.results) = Min(call.k, Cardinality(ReferenceDocs(T, call.query)))
                /\ \A r, t \in 1..Len(call.results) : r # t => pick[r] # pick[t]
                /\ \A r \in 1..Len(call.results) :
                      /\ call.results[r].id = memory_store.ids[pick[r]]
                      /\ call.results[r].score =
                            ReferenceScore(pick[r], T, call.query, call.semantic_weight)
                /\ \A r \in 1..(Len(call.results) - 1) :
                      call.results[r].score >= call.results[r + 1].score
                /\ \A i \in ReferenceDocs(T, call.query) \ Range(pick) :
                      \A r \in 1..Len(call.results) :
                          call.results[r].score
                              >= ReferenceScore(i, T, call.query, call.semantic_weight)

(* C14: when two stored documents have equal similarity to the query,      *)
(* search returns the one inserted earlier before the one inserted later,  *)
(* also when truncation to k keeps only one of them.                       *)
C14_StableTies ==
    SearchReturned =>
        \A i, j \in StoredIndices :
            (/\ i < j
             /\ SemanticScore(i, call.query) = SemanticScore(j, call.query)
             /\ \E r \in 1..Len(call.results) : call.results[r].id = memory_store.ids[j])
            => \E ri, rj \in 1..Len(call.results) :
                    /\ call.results[ri].id = memory_store.ids[i]
                    /\ call.results[rj].id = memory_store.ids[j]
                    /\ ri < rj

-----------------------------------------------------------------------------
(* Generation backends *)

(* What the generation backend does when it is contacted *)
Backends == {"ok", "unreachable", "http_error", "no_response", "malformed"}

Providers == {"openai", "anthropic", "ollama", "mock"}

GeneratedText == "generated text"
Generation(kind, text) == [kind |-> kind, text |-> text]

(* LLMProvider.generate: the openai and anthropic clients are called with  *)
(* no handler, _generate_ollama posts without a timeout and turns every    *)
(* exception into a string, the mock contacts nothing                      *)
LLMProvider_generate(provider, backend) ==
    IF provider \in {"openai", "anthropic"}
    THEN IF backend = "ok" THEN Generation("text", GeneratedText)
         ELSE Generation("raise", "")
    ELSE IF provider = "ollama"
    THEN IF backend = "ok" THEN Generation("text", GeneratedText)
         ELSE IF backend = "no_response" THEN Generation("hang", "")
         ELSE Generation("error_string", "Error calling Ollama: ...")
    ELSE Generation("text", "Mock response to: ...")

(* OllamaLLM.generate: posts with timeout=self.timeout; Timeout and        *)
(* RequestException become strings, anything else propagates               *)
OllamaLLM_generate(backend) ==
    IF backend = "ok" THEN Generation("text", GeneratedText)
    ELSE IF backend = "no_response"
    THEN Generation("error_string", "Error: Request timed out. ...")
    ELSE IF backend \in {"unreachable", "http_error"}
    THEN Generation("error_string", "Error calling Ollama: ...")
    ELSE Generation("raise", "")

(* OllamaLLM.chat: posts with the timeout; every exception becomes a string *)
OllamaLLM_chat(backend) ==
    IF backend = "ok" THEN Generation("text", GeneratedText)
    ELSE Generation("error_string", "Error in chat: ...")

-----------------------------------------------------------------------------
(* RAG orchestration *)

PassageLimit == 500             \* doc['document'][:500] in _build_context
ChatPassageLimit == 300         \* result.get('document', '')[:300] in intelligence chat
PreviewLimit == 200             \* doc[:200] in the sources of the intelligence query
HistoryWindow == 5              \* conversation_history[-5:]
TerminalHistoryLimit == 20      \* self.conversation_history[-20:]
ChatK == 3                      \* search(message, k=3)
ResurrectionK == 2              \* search(question, k=2)
ResurrectionFallbackK == 3      \* search(question, k=3) without the LLM
PromptLimit == 3000             \* if len(full_prompt) > 3000
ContextLimit == 2000            \* context[:context_limit]
PromptOverhead == 392           \* len(full_prompt) of figure jesus_christ around context and question

(* len(text) *)
TextLength(text) ==
    CASE text = "zzzqx7 unique marker" -> 20
      [] text = "love your enemies"    -> 17
      [] text = "love is patient"      -> 15
      [] text = "let love be genuine"  -> 19
      [] text = "zzzqx7"               -> 6
      [] text = "love"                 -> 4
      [] text = "unique marker"        -> 13
      [] text = ""                     -> 0
      [] text = LongText               -> 2106

(* text[:limit], as the text, how many of its characters are kept, and    *)
(* whether a truncation marker follows (a slice adds none)                 *)
Excerpt(text, limit) ==
    [document |-> text, chars |-> Min(TextLength(text), limit), marked |-> FALSE]

(* context[:budget] of "\n\n".join(documents), passage by passage: what    *)
(* is kept of each, nothing of those beyond the cut                        *)
RECURSIVE CutJoined(_, _)
CutJoined(docs, budget) ==
    IF docs = <<>> THEN <<>>
    ELSE <<[document |-> Head(docs).document,
            chars    |-> Max(0, Min(TextLength(Head(docs).document), budget)),
            marked   |-> FALSE]>>
         \o CutJoined(Tail(docs), budget - TextLength(Head(docs).document) - 2)

RECURSIVE SumLengths(_)
SumLengths(docs) ==
    IF docs = <<>> THEN 0 ELSE TextLength(Head(docs).document) + SumLengths(Tail(docs))

(* RAGSystem._build_context (retrieval): every passage cut to 500 characters *)
build_context(documents) ==
    [i \in 1..Len(documents) |-> Excerpt(documents[i].document, PassageLimit)]

NoAnswer == Generation("none", "")

QueryOutcome(status, answer, generation, retrieved, sources, context, method) ==
    [status |-> status, answer |-> answer, generation |-> generation,
     retrieved |-> retrieved, sources |-> sources, context |-> context, method |-> method,
     search_failed |-> FALSE, searches |-> 1]

(* the outcome of a call that called vector_store.search n times *)
Searched(outcome, n) == [outcome EXCEPT !.searches = n]

(* the outcome of a call whose search step raised *)
SearchFailed(outcome) == [outcome EXCEPT !.search_failed = TRUE]

QueryRaised(retrieved) == QueryOutcome("raised", NoAnswer, "none", retrieved, <<>>, <<>>, "none")

(* what a caller of generate gets: the text, an exception, or no return *)
AfterGeneration(gen, retrieved, sources, context, method) ==
    IF gen.kind = "raise" THEN QueryOutcome("raised", NoAnswer, gen.kind, retrieved, <<>>, <<>>, "none")
    ELSE IF gen.kind = "hang" THEN QueryOutcome("hung", NoAnswer, gen.kind, retrieved, <<>>, <<>>, "none")
    ELSE QueryOutcome("returned", gen, gen.kind, retrieved, sources, context, method)

(* retrieval.llm_integration.RAGSystem.query *)
retrieval_query(store, question, k, use_context, filter, provider, backend) ==
    {IF found.raised THEN SearchFailed(QueryRaised(<<>>))
     ELSE Searched(AfterGeneration(LLMProvider_generate(provider, backend),
                                   found.results, found.results,
                                   build_context(found.results), "rag"),
                   IF use_context THEN 1 ELSE 0)
     : found \in IF use_context THEN search(store, question, k, filter)
                 ELSE {Returned(<<>>)}}

(* intelligence.llm.RAGSystem.query, with a vector store *)
intelligence_query(store, question, k, backend) ==
    {IF found.raised THEN SearchFailed(QueryRaised(<<>>))
     ELSE AfterGeneration(
            OllamaLLM_generate(backend),
            found.results,
            [i \in 1..Len(found.results) |->
                [score   |-> found.results[i].score,
                 preview |-> Excerpt(found.results[i].document, PreviewLimit)]],
            [i \in 1..Len(found.results) |->
                Excerpt(found.results[i].document, TextLength(found.results[i].document))],
            "rag")
     : found \in search(store, question, k, NoFilter)}

(* ResurrectionConsciousness.query; rag is None when Ollama could not be   *)
(* reached at construction                                                 *)
resurrection_query(store, question, use_llm, rag, backend) ==
    IF use_llm /\ rag
    THEN
      {IF found.raised
       THEN SearchFailed(QueryOutcome("returned", Generation("error_string", "Error: ..."),
                                      "none", <<>>, <<>>, <<>>, "error"))
       ELSE
       LET docs == found.results
           context_length == SumLengths(docs) + 2 * Max(Len(docs) - 1, 0)
           too_long == PromptOverhead + context_length + TextLength(question) > PromptLimit
           cut == IF too_long THEN CutJoined(docs, ContextLimit)
                  ELSE CutJoined(docs, context_length)
           \* "[Context truncated for brevity]" is appended to the cut context:
           \* it follows the last passage that has any of its text in it
           context == [i \in 1..Len(cut) |->
                         [cut[i] EXCEPT !.marked =
                             /\ too_long
                             /\ cut[i].chars > 0
                             /\ \A j \in (i + 1)..Len(cut) : cut[j].chars = 0]]
           gen == OllamaLLM_generate(backend)
           sources == [i \in 1..Min(Len(docs), 2) |->
                          [score |-> docs[i].score,
                           text |-> Excerpt(docs[i].document, PreviewLimit)]]
       IN  IF gen.kind = "raise"
           THEN QueryOutcome("returned",
                    IF docs # <<>> THEN Generation("passage", docs[1].document)
                    ELSE Generation("canned", "I cannot find wisdom on this matter in the texts."),
                    gen.kind, docs, <<>>, context, "retrieval_fallback")
           ELSE QueryOutcome("returned", gen, gen.kind, docs, sources, context, "rag")
       : found \in search(store, question, ResurrectionK, NoFilter)}
    ELSE
      \* search_results of the first search are dropped and the collection
      \* is searched again with k=3.  These results hold 'document', not
      \* 'text': doc['text'] raises KeyError, which the outer handler turns
      \* into an error response
      {IF first.raised \/ found.raised
       THEN Searched(SearchFailed(QueryOutcome("returned",
                                      Generation("error_string", "Error: ..."),
                                      "none", <<>>, <<>>, <<>>, "error")),
                     IF first.raised THEN 1 ELSE 2)
       ELSE IF found.results # <<>>
       THEN Searched(QueryOutcome("returned", Generation("error_string", "Error: ..."),
                                  "none", found.results, <<>>, <<>>, "error"), 2)
       ELSE Searched(QueryOutcome("returned",
                Generation("canned", "I have no wisdom on this matter in my texts."), "none",
                <<>>, <<>>, <<>>, "no_results"), 2)
       : first \in search(store, question, ResurrectionK, NoFilter),
         found \in search(store, question, ResurrectionFallbackK, NoFilter)}

-----------------------------------------------------------------------------
(* Chat.  A turn is {role, content}; the content of a turn is represented  *)
(* by the turn's serial number in the conversation, the context preamble   *)
(* by serial 0.                                                            *)

Turn(role, serial) == [role |-> role, turn |-> serial]

(* str.capitalize() of a role *)
Capitalize(role) ==
    CASE role = "user" -> "User"
      [] role = "assistant" -> "Assistant"
      [] role = "system" -> "System"
      [] OTHER -> role      \* already capitalised

ChatOutcome(status, response, sent, sources, context) ==
    [status |-> status, response |-> response, sent |-> sent, sources |-> sources,
     context |-> context, search_failed |-> FALSE]

(* conversation_history[:5]: the oldest five *)
oldest_messages(history) == HeadSlice(history, HistoryWindow)

(* conversation_history[-5:] *)
last_messages(history) == TailSlice(history, HistoryWindow)

(* retrieval.llm_integration.RAGSystem.chat: prompt_parts handed to generate *)
retrieval_chat(store, message, message_turn, history, provider, backend) ==
    {IF found.raised THEN SearchFailed(ChatOutcome("raised", NoAnswer, <<>>, <<>>, <<>>))
     ELSE
     LET context == build_context(found.results)
         recent == last_messages(history)
         turns == [i \in 1..Len(recent) |-> Turn(Capitalize(recent[i].role), recent[i].turn)]
                    \o <<Turn("User", message_turn)>>
         prompt_parts == IF context # <<>> THEN <<Turn("Relevant memories", 0)>> \o turns
                         ELSE turns
         gen == LLMProvider_generate(provider, backend)
     IN  IF gen.kind = "raise" THEN ChatOutcome("raised", NoAnswer, prompt_parts, <<>>, context)
         ELSE IF gen.kind = "hang" THEN ChatOutcome("hung", NoAnswer, prompt_parts, <<>>, context)
         ELSE ChatOutcome("returned", gen, prompt_parts, <<>>, context)
     : found \in search(store, message, ChatK, NoFilter)}

(* intelligence.llm.RAGSystem.chat: messages handed to OllamaLLM.chat *)
intelligence_chat(store, message, message_turn, history, use_context, k, backend) ==
    {IF found.raised THEN SearchFailed(ChatOutcome("raised", NoAnswer, <<>>, <<>>, <<>>))
     ELSE
     LET context_info == [i \in 1..Len(found.results) |->
                            Excerpt(found.results[i].document, ChatPassageLimit)]
         sources == [i \in 1..Len(found.results) |-> found.results[i].metadata]
         copied == history
         with_context == IF context_info # <<>> THEN <<Turn("system", 0)>> \o copied
                         ELSE copied
         messages == Append(with_context, Turn("user", message_turn))
     IN  ChatOutcome("returned", OllamaLLM_chat(backend), messages, sources, context_info)
     : found \in IF use_context THEN search(store, message, k, NoFilter)
                 ELSE {Returned(<<>>)}}

-----------------------------------------------------------------------------
(* SpecRag: queries and chats over a small store *)

MaxRagDocs == 2         \* documents held by the store in SpecRag
MaxRagK == 2            \* largest k passed to a RAG query in SpecRag
MaxHistory == 21        \* longest history passed to a chat call
MaxTerminalTurns == 24  \* turns of one terminal conversation

RagQuestions == {"zzzqx7", "love"}
RagTexts == {Marker, LongText}

(* a history of n turns, user and assistant alternating *)
History(n) == [i \in 1..n |-> Turn(IF i % 2 = 1 THEN "user" ELSE "assistant", i)]

AddRagText ==
    \E text \in RagTexts, now \in Timestamps :
        /\ Len(memory_store.documents) < MaxRagDocs
        /\ AddDocuments(<<text>>, NoArg, NoArg, now)

(* add_documents(documents, ids=[]): the texts are stored and no id is,    *)
(* so that the store's lists are no longer aligned                         *)
AddWithoutIds ==
    \E text \in {Marker}, now \in Timestamps :
        /\ Len(memory_store.documents) < MaxRagDocs
        /\ AddDocuments(<<text>>, NoArg, Some(<<>>), now)

QueryCall(variant, question, provider, backend, outcome) ==
    [op |-> "query", variant |-> variant, question |-> question,
     provider |-> provider, backend |-> backend,
     status |-> outcome.status, answer |-> outcome.answer,
     generation |-> outcome.generation, retrieved |-> outcome.retrieved,
     sources |-> outcome.sources, context |-> outcome.context, method |-> outcome.method,
     search_failed |-> outcome.search_failed, searches |-> outcome.searches]

RetrievalQuery ==
    /\ call = Idle
    /\ \E question \in RagQuestions, k \in 0..MaxRagK, use_context \in BOOLEAN,
          provider \in Providers, backend \in Backends :
          \E outcome \in retrieval_query(memory_store, question, k, use_context,
                                          NoFilter, provider, backend) :
              call' = QueryCall("retrieval", question, provider, backend, outcome)
    /\ UNCHANGED <<memory_store, conversation_history, events>>

IntelligenceQuery ==
    /\ call = Idle
    /\ \E question \in RagQuestions, k \in 0..MaxRagK, backend \in Backends :
          \E outcome \in intelligence_query(memory_store, question, k, backend) :
              call' = QueryCall("intelligence", question, "OllamaLLM", backend, outcome)
    /\ UNCHANGED <<memory_store, conversation_history, events>>

ResurrectionQuery ==
    /\ call = Idle
    /\ \E question \in RagQuestions, use_llm \in BOOLEAN, rag \in BOOLEAN,
          backend \in Backends :
          \E outcome \in resurrection_query(memory_store, question, use_llm, rag, backend) :
              call' = QueryCall("resurrection", question, "OllamaLLM", backend, outcome)
    /\ UNCHANGED <<memory_store, conversation_history, events>>

ChatCall(variant, history, message_turn, backend, outcome) ==
    [op |-> "chat", variant |-> variant, history |-> history,
     message_turn |-> message_turn, backend |-> backend,
     status |-> outcome.status, response |-> outcome.response,
     sent |-> outcome.sent, sources |-> outcome.sources, context |-> outcome.context,
     search_failed |-> outcome.search_failed]

RetrievalChat ==
    /\ call = Idle
    /\ \E message \in RagQuestions, n \in 0..MaxHistory,
          provider \in Providers, backend \in Backends :
          \E outcome \in retrieval_chat(memory_store, message, n + 1, History(n),
                                         provider, backend) :
              call' = ChatCall("retrieval", History(n), n + 1, backend, outcome)
    /\ UNCHANGED <<memory_store, conversation_history, events>>

IntelligenceChat ==
    /\ call = Idle
    /\ \E message \in RagQuestions, n \in 0..MaxHistory, use_context \in BOOLEAN,
          backend \in Backends :
          \E outcome \in intelligence_chat(memory_store, message, n + 1, History(n),
                                            use_context, ChatK, backend) :
              call' = ChatCall("intelligence", History(n), n + 1, backend, outcome)
    /\ UNCHANGED <<memory_store, conversation_history, events>>

(* ChristTerminal._process_chat_message on a chat message: rag.chat, then  *)
(* both turns appended and the history cut to its last 20; an exception    *)
(* leaves the history as it was                                            *)
NextTurn(history) == IF history = <<>> THEN 1 ELSE history[Len(history)].turn + 1

keep_history_manageable(history) ==
    IF Len(history) > TerminalHistoryLimit
    THEN TailSlice(history, TerminalHistoryLimit)
    ELSE history

ProcessChatMessage ==
    /\ call = Idle
    /\ NextTurn(conversation_history) + 1 <= MaxTerminalTurns
    /\ \E message \in RagQuestions, backend \in Backends :
          \E outcome \in intelligence_chat(memory_store, message,
                                            NextTurn(conversation_history),
                                            conversation_history, TRUE, ChatK, backend) :
              /\ call' = ChatCall("terminal", conversation_history,
                                  NextTurn(conversation_history), backend, outcome)
              /\ conversation_history' =
                    IF outcome.status = "returned"
                    THEN keep_history_manageable(
                            conversation_history
                                \o <<Turn("user", NextTurn(conversation_history)),
                                     Turn("assistant", NextTurn(conversation_history) + 1)>>)
                    ELSE conversation_history
    /\ UNCHANGED <<memory_store, events>>

(* ChristTerminal._process_chat_message on "/exit", "/clear", "/history" *)
ProcessChatCommand ==
    /\ call = Idle
    /\ \E command \in {"/exit", "/clear", "/history"} :
          /\ call' = [op |-> "terminal_command", command |-> command]
          /\ conversation_history' =
                IF command = "/clear" THEN <<>> ELSE conversation_history
    /\ UNCHANGED <<memory_store, events>>

(* a backend called directly: LLMProvider.generate of each provider,       *)
(* OllamaLLM.generate and OllamaLLM.chat                                   *)
GenerateCall(provider, method, backend, result) ==
    [op |-> "generate", provider |-> provider, method |-> method,
     backend |-> backend, result |-> result]

Generate ==
    /\ call = Idle
    /\ \E backend \in Backends :
          \/ \E provider \in Providers :
                call' = GenerateCall(provider, "generate", backend,
                                     LLMProvider_generate(provider, backend))
          \/ call' = GenerateCall("OllamaLLM", "generate", backend,
                                  OllamaLLM_generate(backend))
          \/ call' = GenerateCall("OllamaLLM", "chat", backend,
                                  OllamaLLM_chat(backend))
    /\ UNCHANGED <<memory_store, conversation_history, events>>

(* a call whose generation request is never answered does not return *)
ReturnRag ==
    /\ call # Idle
    /\ call.op \in {"query", "chat", "reflect"} => call.status # "hung"
    /\ call.op = "generate" => call.result.kind # "hang"
    /\ call' = Idle
    /\ UNCHANGED <<memory_store, conversation_history, events>>

NextRag ==
    \/ AddRagText \/ AddWithoutIds \/ Clear
    \/ RetrievalQuery \/ IntelligenceQuery \/ ResurrectionQuery
    \/ RetrievalChat \/ IntelligenceChat
    \/ ProcessChatMessage \/ ProcessChatCommand
    \/ Generate
    \/ ReturnRag

SpecRag == Init /\ [][NextRag]_vars

-----------------------------------------------------------------------------
(* Properties of SpecRag *)

GenerationFailed ==
    /\ call # Idle
    /\ call.op = "query"
    /\ call.generation \in {"raise", "hang", "error_string"}

(* C2: when the generation backend fails during a RAG query whose          *)
(* retrieval returned at least one passage, the query returns normally and *)
(* its answer is the text of the highest-scoring retrieved passage, not an *)
(* error message.                                                          *)
C2_DegradedMode ==
    (GenerationFailed /\ call.retrieved # <<>>) =>
        /\ call.status = "returned"
        /\ call.answer = Generation("passage", call.retrieved[1].document)

ChatSent == call # Idle /\ call.op = "chat" /\ call.sent # <<>>

(* the conversation turns handed to the backend, the context preamble left out *)
IsConversationTurn(t) == t.turn # 0
SentTurns == SelectSeq(call.sent, IsConversationTurn)

(* the window of a chat variant: the last 5 messages of the retrieval      *)
(* RAGSystem, the 20 the terminal keeps for the intelligence RAGSystem     *)
WindowOf(variant) ==
    IF variant = "retrieval" THEN HistoryWindow ELSE TerminalHistoryLimit

(* C3: however long the history passed to chat, the prompt or message list *)
(* handed to the generation backend holds at most N prior turns plus the   *)
(* current message, N being the window.                                    *)
C3_ChatWindowBound ==
    ChatSent => Len(SentTurns) <= WindowOf(call.variant) + 1

(* history followed by the current user message, as (role, serial) *)
FullConversation ==
    [i \in 1..Len(call.history) |->
        Turn(Capitalize(call.history[i].role), call.history[i].turn)]
      \o <<Turn("User", call.message_turn)>>

(* C4: the conversation turns sent to the generation backend are a         *)
(* contiguous suffix, in the original order, of the history followed by    *)
(* the current user message, and the current user message is the last one. *)
C4_ContiguousSuffix ==
    ChatSent =>
        LET sent == [i \in 1..Len(SentTurns) |->
                        Turn(Capitalize(SentTurns[i].role), SentTurns[i].turn)]
            full == FullConversation
        IN  /\ Len(sent) >= 1
            /\ Len(sent) <= Len(full)
            /\ sent = SubSeq(full, Len(full) - Len(sent) + 1, Len(full))
            /\ sent[Len(sent)] = Turn("User", call.message_turn)

(* a chat whose history is longer than the window was trimmed and sent *)
C4_Witness ==
    /\ ChatSent
    /\ call.variant = "retrieval"
    /\ Len(call.history) > HistoryWindow
    /\ Len(SentTurns) = HistoryWindow + 1
    /\ call.sent[1].turn = 0

(* a call that assembled a context for the generation backend *)
ContextBuilt == call # Idle /\ call.op \in {"query", "chat"} /\ call.context # <<>>

(* C15: whenever the context assembled for a generation call holds only a  *)
(* proper prefix of a retrieved passage's text, that passage is followed   *)
(* by a truncation marker; no passage is cut silently.                     *)
C15_TruncationMarked ==
    ContextBuilt =>
        \A i \in 1..Len(call.context) :
            (/\ call.context[i].chars > 0
             /\ call.context[i].chars < TextLength(call.context[i].document))
            => call.context[i].marked

(* C24: passages lose text in reverse rank order: a passage of the         *)
(* context is shortened or dropped only when every passage ranked below it *)
(* has been dropped, so the top-ranked passage is the last to lose text.   *)
C24_ReverseRankTruncation ==
    ContextBuilt =>
        \A i \in 1..Len(call.context) :
            call.context[i].chars < TextLength(call.context[i].document)
            => \A j \in (i + 1)..Len(call.context) : call.context[j].chars = 0

(* the text a source entry was made from: the passage itself (retrieval),  *)
(* its preview (intelligence), its text (resurrection)                     *)
SourceDocument(variant, source) ==
    IF variant = "retrieval" THEN source.document
    ELSE IF variant = "intelligence" THEN source.preview.document
    ELSE source.text.document

HasText(passage) == passage.chars > 0

(* C16: the sources of a query result are exactly the retrieved passages   *)
(* whose text is in the context given to the generation backend, none      *)
(* missing and none extra, each with its retrieval score.                  *)
C16_SourcesAreContext ==
    (call # Idle /\ call.op = "query" /\ call.status = "returned") =>
        LET included == SelectSeq(call.context, HasText)
        IN  /\ Len(call.sources) = Len(included)
            /\ \A i \in 1..Len(call.sources) :
                  /\ SourceDocument(call.variant, call.sources[i]) = included[i].document
                  /\ call.sources[i].score = call.retrieved[i].score

(* C18: when the search step of RAGSystem.query or RAGSystem.chat fails,   *)
(* the call returns as if nothing had been retrieved: no exception, empty  *)
(* sources, and the generation backend was still called.                   *)
SearchStepFailed ==
    /\ call # Idle
    /\ call.op \in {"query", "chat"}
    /\ call.variant \in {"retrieval", "intelligence"}
    /\ call.search_failed

GenerationAttempted ==
    IF call.op = "query" THEN call.generation # "none" ELSE call.sent # <<>>

C18_SearchFailureIsNoResults ==
    SearchStepFailed =>
        /\ call.status = "returned"
        /\ call.sources = <<>>
        /\ GenerationAttempted

(* C17: for every generation backend, a network or timeout error during    *)
(* generate or chat never reaches the caller as an exception: the call     *)
(* returns an error string instead.                                        *)
NetworkFailures == {"unreachable", "no_response"}

C17_NetworkErrorsCaught ==
    (call # Idle /\ call.op = "generate" /\ call.backend \in NetworkFailures
        /\ call.provider # "mock")
        => call.result.kind = "error_string"

(* C26: every query searches the collection once and invokes the           *)
(* generation backend once, after retrieval and context building, and the  *)
(* result is produced after generation has returned (RETRIEVE,             *)
(* BUILD_CONTEXT, GENERATE, ATTRIBUTE, each exactly once).                 *)
C26_StagesOnce ==
    (call.op = "query" /\ call.status = "returned" /\ ~call.search_failed) =>
        /\ call.searches = 1
        /\ call.generation # "none"

(* SpecRagLive: a call that can return does return (the engine is          *)
(* call-blocking: the caller takes the result as soon as there is one)     *)
SpecRagLive == SpecRag /\ WF_vars(ReturnRag)

(* C25: every generation call carries a timeout, so a generate or chat     *)
(* call returns to its caller, with a result or an error, also when the    *)
(* backend never responds.                                                 *)
C25_GenerateReturns ==
    (call.op = "generate") ~> (call = Idle)

-----------------------------------------------------------------------------
(* SpecFrame: every operation that reads the store, next to those that     *)
(* write it                                                                *)

ReflectK == 10                  \* search(query, k=10)

(* VectorStore.get_stats *)
get_stats(store) ==
    [total_documents     |-> Len(store.ids),
     storage_type        |-> "memory",
     embedding_model     |-> "all-MiniLM-L6-v2",
     embedding_dimension |-> EmbeddingDimension]

GetStats ==
    /\ call = Idle
    /\ call' = [op |-> "get_stats", stats |-> get_stats(memory_store)]
    /\ UNCHANGED <<memory_store, conversation_history, events>>

(* RAGSystem.reflect: the query built from the arguments *)
reflect_query(focus_areas) ==
    IF IsSupplied(focus_areas) /\ ValueOf(focus_areas) # <<>>
    THEN "Generate insights about focusing on love"
    ELSE "Generate insights about"

(* RAGSystem.reflect: search, _build_context, generate *)
reflect(store, focus_areas, provider, backend) ==
    {IF found.raised
     THEN [status |-> "raised", reflection |-> NoAnswer, context |-> <<>>]
     ELSE LET context == build_context(found.results)
              gen == LLMProvider_generate(provider, backend)
          IN  [status     |-> IF gen.kind = "raise" THEN "raised"
                              ELSE IF gen.kind = "hang" THEN "hung" ELSE "returned",
               reflection |-> IF gen.kind \in {"raise", "hang"} THEN NoAnswer ELSE gen,
               context    |-> context]
     : found \in search(store, reflect_query(focus_areas), ReflectK, NoFilter)}

Reflect ==
    /\ call = Idle
    /\ \E focus_areas \in {NoArg, Some(<<"love">>)}, provider \in Providers,
          backend \in Backends :
          \E outcome \in reflect(memory_store, focus_areas, provider, backend) :
              call' = [op |-> "reflect", focus_areas |-> focus_areas,
                       provider |-> provider, backend |-> backend,
                       status |-> outcome.status, reflection |-> outcome.reflection,
                       context |-> outcome.context]
    /\ UNCHANGED <<memory_store, conversation_history, events>>

NextFrame ==
    \/ AddRagText \/ DeleteAny \/ Clear
    \/ SearchAny \/ RetrieveAny \/ GetStats
    \/ RetrievalQuery \/ IntelligenceQuery \/ ResurrectionQuery
    \/ RetrievalChat \/ IntelligenceChat \/ Reflect
    \/ ReturnRag

SpecFrame == Init /\ [][NextFrame]_vars

(* the stored documents, each with its id, text, metadata and embedding *)
StoredDocuments(store) ==
    [i \in 1..Len(store.documents) |->
        [id |-> store.ids[i], text |-> store.documents[i],
         metadata |-> store.metadatas[i], embedding |-> store.embeddings[i]]]

IsPrefix(s, t) == Len(s) <= Len(t) /\ SubSeq(t, 1, Len(s)) = s

(* s is t with some of its elements left out *)
RECURSIVE IsSubsequence(_, _)
IsSubsequence(s, t) ==
    IF s = <<>> THEN TRUE
    ELSE IF t = <<>> THEN FALSE
    ELSE IF Head(s) = Head(t) THEN IsSubsequence(Tail(s), Tail(t))
    ELSE IsSubsequence(s, Tail(t))

DeleteReturned == call.op = "delete" /\ ~call.raised

(* C27: after delete(ids) no stored document has an id of ids, the         *)
(* documents with other ids are stored unchanged and in the same order,    *)
(* get_stats counts the documents still stored, and deleting ids that are  *)
(* not stored changes nothing.                                             *)
C27_DeleteRemovesExactly ==
    [][(call = Idle /\ DeleteReturned') =>
         LET Kept(d) == d.id \notin Range(call'.ids)
         IN  /\ \A i \in 1..Len(memory_store'.ids) :
                    memory_store'.ids[i] \notin Range(call'.ids)
             /\ StoredDocuments(memory_store')
                    = SelectSeq(StoredDocuments(memory_store), Kept)
             /\ get_stats(memory_store').total_documents
                    = Len(memory_store'.documents)
             /\ (Range(call'.ids) \cap Range(memory_store.ids) = {}
                    => memory_store' = memory_store)]_vars

Writers == {"add_documents", "delete", "clear"}

(* C19: the stored documents change only through add_documents, delete and *)
(* clear: every other operation leaves the store as it was, an addition    *)
(* keeps every stored document as it was, and a deletion keeps, unchanged  *)
(* and in order, every document whose id it was not given.                 *)
C19_StoredDocumentsFrame ==
    [][/\ call'.op \notin Writers => memory_store' = memory_store
       /\ call'.op = "add_documents" =>
             IsPrefix(StoredDocuments(memory_store), StoredDocuments(memory_store'))
       /\ call'.op = "delete" =>
             LET before == StoredDocuments(memory_store)
                 Survives(d) == d.id \notin Range(call'.ids)
             IN  /\ IsSubsequence(StoredDocuments(memory_store'), before)
                 /\ IsSubsequence(SelectSeq(before, Survives),
                                  StoredDocuments(memory_store'))]_vars

C19_Witness ==
    /\ call.op = "reflect"
    /\ call.status = "returned"
    /\ Len(call.context) = MaxRagDocs
    /\ memory_store.documents[1] # memory_store.documents[2]

-----------------------------------------------------------------------------
(* SpecPurge: the consciousness and retrieval endpoints over the Event     *)
(* table and the collection the ingestion pipeline fills                   *)

MaxEvents == 2          \* rows of the Event table, and documents of the collection

Users == {"default", "alice"}
ConsentLevels == {"none", "metadata_only", "anonymized", "full", "everything"}

(* hashlib.sha256(content.encode()).hexdigest()[:16] *)
content_hash16(text) ==
    CASE text = "zzzqx7 unique marker" -> "e642d0cc4bc3ec0f"
      [] text = "love your enemies"    -> "706d644935f58340"

EventIds == {events[r].id : r \in 1..Len(events)}

(* ConsentBasedEncryption.process_data on the dict ingest_data builds: no  *)
(* branch gives the result an 'id'; only 'anonymized' keeps 'content' (the *)
(* texts here hold nothing anonymize_pii rewrites)                         *)
process_data(content, consent_level) ==
    CASE consent_level = "none"          -> [raised |-> FALSE, id |-> None, content |-> None]
      [] consent_level = "metadata_only" -> [raised |-> FALSE, id |-> None, content |-> None]
      [] consent_level = "anonymized"    -> [raised |-> FALSE, id |-> None, content |-> content]
      [] consent_level = "full"          -> [raised |-> FALSE, id |-> None, content |-> None]
      [] OTHER                           -> [raised |-> TRUE, id |-> None, content |-> None]

(* DatabaseManager.store_event: event_data['id'] must exist and be new *)
store_event(rows, id, user_id, text) ==
    IF id = None \/ id \in {rows[r].id : r \in 1..Len(rows)}
    THEN [raised |-> TRUE, rows |-> rows]
    ELSE [raised |-> FALSE, rows |-> Append(rows, [id |-> id, user_id |-> user_id, text |-> text])]

(* POST /consciousness/ingest *)
IngestData ==
    /\ call = Idle
    /\ \E content \in StoreTexts, consent_level \in ConsentLevels, now \in Timestamps :
          LET processed == process_data(content, consent_level)
              stored == store_event(events, processed.id, "default", content)
              failed == processed.raised \/ stored.raised
          IN  /\ Len(events) < MaxEvents
              /\ events' = IF failed THEN events ELSE stored.rows
              /\ memory_store' =
                    IF failed \/ processed.content = None THEN memory_store
                    ELSE add_documents(memory_store, <<processed.content>>,
                                       Some(<<EmptyDict>>), Some(<<processed.id>>), now).store
              /\ call' = [op |-> "ingest_data", content |-> content,
                          consent_level |-> consent_level,
                          status |-> IF failed THEN "500" ELSE "success"]
    /\ UNCHANGED conversation_history

(* POST /consciousness/ingest/file with a text file: the parsed item goes  *)
(* to the Event table under user_id; the collection is not touched         *)
IngestFile ==
    /\ call = Idle
    /\ \E text \in StoreTexts, user_id \in Users :
          LET stored == store_event(events, content_hash16(text), user_id, text)
          IN  /\ Len(events) < MaxEvents
              /\ events' = stored.rows
              /\ call' = [op |-> "ingest_file", user_id |-> user_id,
                          status |-> IF stored.raised THEN "500" ELSE "success"]
    /\ UNCHANGED <<memory_store, conversation_history>>

(* ConsciousnessIngestor._process_text, as scripts/ingest_my_data.py runs  *)
(* it: an event of user 'default', and the text in the collection under    *)
(* the event's id                                                          *)
ProcessText ==
    /\ call = Idle
    /\ \E text \in StoreTexts, now \in Timestamps :
          LET event_id == uuid4s(EventIds \cup Range(memory_store.ids), 1)[1]
              stored == store_event(events, event_id, "default", text)
          IN  /\ Len(events) < MaxEvents
              /\ Len(memory_store.documents) < MaxEvents
              /\ events' = stored.rows
              /\ memory_store' = add_documents(memory_store, <<text>>, Some(<<EmptyDict>>),
                                               Some(<<event_id>>), now).store
              /\ call' = [op |-> "_process_text", event_id |-> event_id,
                          status |-> "success"]
    /\ UNCHANGED conversation_history

(* DELETE /consciousness/purge/{user_id}: the rows of the user go; the     *)
(* call that would clear the collection is commented out                   *)
PurgeData ==
    /\ call = Idle
    /\ \E user_id \in Users, confirm \in BOOLEAN :
          LET Kept(row) == row.user_id # user_id
          IN  /\ events' = IF confirm THEN SelectSeq(events, Kept) ELSE events
              /\ call' = [op |-> "purge_data", user_id |-> user_id, confirm |-> confirm,
                          status |-> IF confirm THEN "success" ELSE "warning",
                          purged |-> IF confirm
                                     THEN {events[r].id : r \in {q \in 1..Len(events) :
                                                                  events[q].user_id = user_id}}
                                     ELSE {}]
    /\ UNCHANGED <<memory_store, conversation_history>>

(* GET /consciousness/events *)
GetEvents ==
    /\ call = Idle
    /\ \E user_id \in Users :
          LET OfUser(row) == row.user_id = user_id
              rows == SelectSeq(events, OfUser)
          IN  call' = [op |-> "get_events", user_id |-> user_id,
                       events |-> [r \in 1..Len(rows) |-> rows[r].id]]
    /\ UNCHANGED <<memory_store, conversation_history, events>>

(* POST /retrieval/search *)
SemanticSearch ==
    /\ call = Idle
    /\ \E query \in Queries, k \in 0..MaxK, use_hybrid \in BOOLEAN :
          \E outcome \in IF use_hybrid THEN retrieve(memory_store, query, k, 7, NoFilter)
                          ELSE search(memory_store, query, k, NoFilter) :
              call' = [op |-> "semantic_search", query |-> query, k |-> k,
                       use_hybrid |-> use_hybrid,
                       status |-> IF outcome.raised THEN "500" ELSE "success",
                       results |-> outcome.results]
    /\ UNCHANGED <<memory_store, conversation_history, events>>

(* POST /retrieval/ask: rag_system.query with the mock provider *)
AskQuestion ==
    /\ call = Idle
    /\ \E question \in Queries, k \in 0..MaxK, use_context \in BOOLEAN :
          \E outcome \in retrieval_query(memory_store, question, k, use_context,
                                          NoFilter, "mock", "ok") :
              call' = [op |-> "ask_question", question |-> question,
                       status |-> IF outcome.status = "returned" THEN "success" ELSE "500",
                       sources |-> outcome.sources]
    /\ UNCHANGED <<memory_store, conversation_history, events>>

NextPurge ==
    \/ IngestData \/ IngestFile \/ ProcessText \/ PurgeData
    \/ GetEvents \/ SemanticSearch \/ AskQuestion
    \/ Return

SpecPurge == Init /\ [][NextPurge]_vars

PurgeSucceeded == call.op = "purge_data" /\ call.status = "success"

-----------------------------------------------------------------------------
(* SpecEmbed: the fallback embedding, called directly and through          *)
(* add_documents, on texts that include the empty text, in one VectorStore *)
(* instance after the other                                                *)

MaxEmbedDocs == 2       \* documents held by the store in SpecEmbed
MaxEmbedBatch == 2      \* texts passed to one _embed_texts / add_documents call
MaxInstances == 2       \* VectorStore instances constructed one after the other

EmbedTexts == {EmptyText, Marker}

(* VectorStore._embed_texts(texts); the caller still holds what the call   *)
(* before returned, and knows which instance it came from                  *)
EmbedCall ==
    /\ call = Idle \/ call.op = "_embed_texts"
    /\ \E texts \in SeqsUpTo(EmbedTexts, MaxEmbedBatch) :
          call' = [op |-> "_embed_texts",
                   instance |-> IF call = Idle THEN 1 ELSE call.instance,
                   texts |-> texts,
                   embeddings |-> embed_texts(texts),
                   earlier |-> IF call = Idle THEN <<>>
                               ELSE <<[instance   |-> call.made_by,
                                       texts      |-> call.texts,
                                       embeddings |-> call.embeddings]>>,
                   made_by |-> IF call = Idle THEN 1 ELSE call.instance]
    /\ UNCHANGED <<memory_store, conversation_history, events>>

(* VectorStore(): another instance, its memory_store empty; the vectors    *)
(* the caller holds are the caller's                                       *)
NewInstance ==
    /\ call # Idle
    /\ call.op = "_embed_texts"
    /\ call.instance < MaxInstances
    /\ memory_store' = EmptyStore
    /\ call' = [call EXCEPT !.instance = @ + 1]
    /\ UNCHANGED <<conversation_history, events>>

AddEmbedded ==
    \E documents \in SeqsUpTo(EmbedTexts, MaxEmbedBatch), now \in Timestamps :
        /\ Len(memory_store.documents) + Len(documents) <= MaxEmbedDocs
        /\ AddDocuments(documents, NoArg, NoArg, now)

NextEmbed == EmbedCall \/ NewInstance \/ AddEmbedded \/ Clear \/ Return

SpecEmbed == Init /\ [][NextEmbed]_vars

(* C11: every stored document's embedding, and every vector _embed_texts   *)
(* returns, has length embedding_dimension (384), the empty text's too.    *)
C11_DimensionInvariant ==
    /\ \A i \in 1..Len(memory_store.embeddings) :
          Len(memory_store.embeddings[i]) = EmbeddingDimension
    /\ (call # Idle /\ call.op = "_embed_texts") =>
          \A i \in 1..Len(call.embeddings) : Len(call.embeddings[i]) = EmbeddingDimension

(* the empty text is stored, and was embedded by a direct call *)
C11_Witness ==
    /\ \E i \in 1..Len(memory_store.documents) : memory_store.documents[i] = EmptyText
    /\ call # Idle
    /\ call.op = "_embed_texts"
    /\ \E i \in 1..Len(call.texts) : call.texts[i] = EmptyText

(* every (text, vector) pair in sight: the store's, the last call's, and   *)
(* the call's before it                                                    *)
EmbeddedPairs ==
    {<<memory_store.documents[i], memory_store.embeddings[i]>> :
        i \in 1..Min(Len(memory_store.documents), Len(memory_store.embeddings))}
    \cup (IF call # Idle /\ call.op = "_embed_texts"
          THEN {<<call.texts[i], call.embeddings[i]>> : i \in 1..Len(call.texts)}
               \cup UNION {{<<call.earlier[e].texts[i], call.earlier[e].embeddings[i]>> :
                               i \in 1..Len(call.earlier[e].texts)} :
                           e \in 1..Len(call.earlier)}
          ELSE {})

-----------------------------------------------------------------------------
(* SpecIngest: ConsciousnessIngestor.ingest_directory over a directory     *)
(* listing                                                                 *)

MaxFiles == 2           \* entries of one directory listing
MaxIngested == 4        \* rows of the Event table in SpecIngest

(* what directory.glob('*') yields: text files, a file no parser takes,    *)
(* an empty text file and a subdirectory                                   *)
DirEntries ==
    {[name |-> "notes.txt", suffix |-> ".txt", is_file |-> TRUE,  text |-> Marker],
     [name |-> "letter.md", suffix |-> ".md",  is_file |-> TRUE,  text |-> "love your enemies"],
     [name |-> "empty.txt", suffix |-> ".txt", is_file |-> TRUE,  text |-> EmptyText],
     [name |-> "photo.bin", suffix |-> ".bin", is_file |-> TRUE,  text |-> EmptyText],
     [name |-> "drafts",    suffix |-> "",     is_file |-> FALSE, text |-> EmptyText]}

(* TextFileParser.supported_formats, as far as the listing goes *)
supported_formats == {".txt", ".md"}

ExtensionFilters == {NoArg, Some({".txt"})}

Listings ==
    {files \in SeqsUpTo(DirEntries, MaxFiles) :
        \A i, j \in 1..Len(files) : i # j => files[i] # files[j]}

(* the files the loop of ingest_directory does not skip *)
IsEligible(file, extensions) ==
    /\ file.is_file
    /\ (IsSupplied(extensions) /\ ValueOf(extensions) # {}) => file.suffix \in ValueOf(extensions)

(* ConsciousnessIngestor.ingest_file: parse raises ValueError for a format *)
(* it does not know; _process_text stores the event and, when the text is  *)
(* not empty, the document under the event's id                            *)
ingest_file(rows, store, file, now) ==
    IF file.suffix \notin supported_formats
    THEN [raised |-> TRUE, rows |-> rows, store |-> store, event_id |-> None]
    ELSE LET event_id == uuid4s({rows[r].id : r \in 1..Len(rows)} \cup Range(store.ids), 1)[1]
             stored == store_event(rows, event_id, "default", file.text)
         IN  [raised   |-> FALSE,
              rows     |-> stored.rows,
              store    |-> IF file.text = EmptyText THEN store
                           ELSE add_documents(store, <<file.text>>, Some(<<EmptyDict>>),
                                              Some(<<event_id>>), now).store,
              event_id |-> event_id]

(* a loop that ends at the first file that fails *)
RECURSIVE ingest_directory_stopping(_, _, _, _, _)
ingest_directory_stopping(rows, store, files, extensions, now) ==
    IF files = <<>> THEN [rows |-> rows, store |-> store, results |-> <<>>]
    ELSE IF ~IsEligible(Head(files), extensions)
    THEN ingest_directory_stopping(rows, store, Tail(files), extensions, now)
    ELSE LET done == ingest_file(rows, store, Head(files), now)
         IN  IF done.raised
             THEN [rows |-> rows, store |-> store,
                   results |-> <<[file |-> Head(files).name, status |-> "error"]>>]
             ELSE LET rest == ingest_directory_stopping(done.rows, done.store, Tail(files),
                                                        extensions, now)
                  IN  [rest EXCEPT !.results =
                          <<[file |-> Head(files).name, status |-> "success"]>> \o @]

(* ConsciousnessIngestor.ingest_directory: the loop over the listing *)
RECURSIVE ingest_directory(_, _, _, _, _)
ingest_directory(rows, store, files, extensions, now) ==
    IF files = <<>> THEN [rows |-> rows, store |-> store, results |-> <<>>]
    ELSE IF ~IsEligible(Head(files), extensions)
    THEN ingest_directory(rows, store, Tail(files), extensions, now)
    ELSE LET done == ingest_file(rows, store, Head(files), now)
             rest == ingest_directory(done.rows, done.store, Tail(files), extensions, now)
         IN  [rest EXCEPT !.results =
                 <<[file   |-> Head(files).name,
                    status |-> IF done.raised THEN "error" ELSE "success"]>> \o @]

IngestDirectory ==
    /\ call = Idle
    /\ \E files \in Listings, extensions \in ExtensionFilters, now \in Timestamps :
          LET done == ingest_directory(events, memory_store, files, extensions, now)
          IN  /\ Len(events) + Len(files) <= MaxIngested
              /\ events' = done.rows
              /\ memory_store' = done.store
              /\ call' = [op |-> "ingest_directory", files |-> files,
                          extensions |-> extensions, results |-> done.results]
    /\ UNCHANGED conversation_history

NextIngest == IngestDirectory \/ Clear \/ Return

SpecIngest == Init /\ [][NextIngest]_vars

(* the eligible files of the listing of the call, in listing order *)
EligibleFiles(c) ==
    LET Eligible(file) == IsEligible(file, c.extensions)
    IN  SelectSeq(c.files, Eligible)

-----------------------------------------------------------------------------
(* SpecLists: the four lists of the in-memory store under add_documents    *)
(* with ids and metadatas supplied or omitted, delete, clear and search    *)

MaxListed == 2          \* entries of each list of the store in SpecLists

(* add_documents takes the lists it is given: nothing compares their       *)
(* lengths with len(documents)                                             *)
AddLists ==
    \E documents \in SeqsUpTo({Marker}, MaxListed) :
        \E ids \in {NoArg} \cup {Some(s) : s \in SeqsUpTo(SuppliedIds, MaxListed)},
           metadatas \in {NoArg} \cup {Some(m) : m \in SeqsUpTo(SuppliedMetadata, 1)},
           now \in {CHOOSE t \in Timestamps : TRUE} :
            LET done == add_documents(memory_store, documents, metadatas, ids, now).store
            IN  /\ Len(done.ids) <= MaxListed
                /\ Len(done.documents) <= MaxListed
                /\ Len(done.metadatas) <= MaxListed
                /\ AddDocuments(documents, metadatas, ids, now)

NextLists == AddLists \/ DeleteAny \/ Clear \/ SearchAny \/ Return

SpecLists == Init /\ [][NextLists]_vars

(* C28: after add_documents with ids and metadatas supplied or omitted,    *)
(* delete and clear, the lists ids, embeddings, documents and metadatas    *)
(* have one length and position i of each belongs to one document.         *)
C28_ParallelLists ==
    /\ Len(memory_store.ids) = Len(memory_store.documents)
    /\ Len(memory_store.embeddings) = Len(memory_store.documents)
    /\ Len(memory_store.metadatas) = Len(memory_store.documents)
    /\ \A i \in 1..Len(memory_store.documents) :
           memory_store.embeddings[i] = embed_text(memory_store.documents[i])


-----------------------------------------------------------------------------
(* SpecConcurrent: one search running while one add_documents or delete is *)
(* in progress on the in-memory store.  Nothing in VectorStore takes a     *)
(* lock; under the interpreter lock each list operation (extend, pop, an   *)
(* index read, the copy made by np.array) is one step, and the steps of    *)
(* the two calls interleave freely.                                        *)

MaxConcDocs == 2        \* documents held by the store in SpecConcurrent
MaxConcK == 2           \* largest k passed to the concurrent search

ConcQueries == {"zzzqx7", "love"}

(* the order in which add_documents extends, and delete pops, the lists *)
StoreLists == <<"ids", "embeddings", "documents", "metadatas">>

(* the keys of a result in the order _numpy_search reads them *)
ResultKeys == <<"id", "document", "metadata">>
ListOfKey == [id |-> "ids", document |-> "documents", metadata |-> "metadatas"]

AddStored ==
    \E text \in StoreTexts, now \in Timestamps,
       metadatas \in {NoArg} \cup {Some(<<m>>) : m \in SuppliedMetadata} :
        /\ Len(memory_store.documents) < MaxConcDocs
        /\ AddDocuments(<<text>>, metadatas, NoArg, now)

NoPartial == [id |-> "", document |-> "", metadata |-> EmptyDict, score |-> 0]

(* a search that has not started, next to a write that has not started *)
ConcurrentCall(write, done, query, k, filter) ==
    [op |-> "search_during_write", write |-> write, written |-> 0,
     before |-> memory_store, after |-> done,
     query |-> query, k |-> k, filter |-> filter,
     pc |-> "start", snapshot |-> <<>>, top |-> <<>>, at |-> 1, key |-> 1,
     partial |-> NoPartial, raised |-> FALSE, results |-> <<>>]

(* add_documents(documents, metadatas) is called and search(query, k,      *)
(* filter) is called beside it                                             *)
StartAdd ==
    /\ call = Idle
    /\ Len(memory_store.documents) < MaxConcDocs
    /\ \E text \in StoreTexts, now \in Timestamps,
          metadatas \in {NoArg} \cup {Some(<<m>>) : m \in SuppliedMetadata},
          query \in ConcQueries, k \in 1..MaxConcK, filter \in Filters :
          call' = ConcurrentCall("add_documents",
                      add_documents(memory_store, <<text>>, metadatas, NoArg, now).store,
                      query, k, filter)
    /\ UNCHANGED <<memory_store, conversation_history, events>>

(* delete([id]) is called and search(query, k, filter) is called beside it *)
StartDelete ==
    /\ call = Idle
    /\ \E id \in Range(memory_store.ids),
          query \in ConcQueries, k \in 1..MaxConcK, filter \in Filters :
          call' = ConcurrentCall("delete", delete(memory_store, <<id>>).store,
                                 query, k, filter)
    /\ UNCHANGED <<memory_store, conversation_history, events>>

Running == call # Idle /\ call.op = "search_during_write"

(* the writer's next list operation: extend (add_documents) or pop(idx)    *)
(* (delete) on ids, embeddings, documents, metadatas, in this order        *)
WriteStep ==
    /\ Running
    /\ call.written < Len(StoreLists)
    /\ LET list == StoreLists[call.written + 1]
       IN  memory_store' = [memory_store EXCEPT ![list] = call.after[list]]
    /\ call' = [call EXCEPT !.written = @ + 1]
    /\ UNCHANGED <<conversation_history, events>>

(* if not self.memory_store['embeddings']: return [] *)
SearchCheckEmpty ==
    /\ Running
    /\ call.pc = "start"
    /\ call' = IF memory_store.embeddings = <<>>
               THEN [call EXCEPT !.pc = "done"]
               ELSE [call EXCEPT !.pc = "checked"]
    /\ UNCHANGED <<memory_store, conversation_history, events>>

(* the top-k positions and scores computed from the copied embeddings and  *)
(* the metadatas read by the filter loop                                   *)
RankSnapshot(snapshot, metadatas, query, k, filter) ==
    LET m == Max(Len(snapshot), Len(metadatas))
    IN  numpy_rank([ids        |-> [i \in 1..m |-> i],
                    embeddings |-> snapshot,
                    documents  |-> [i \in 1..m |-> i],
                    metadatas  |-> IF IsTruthy(filter) THEN metadatas
                                   ELSE [i \in 1..m |-> EmptyDict]],
                   embed_texts(<<query>>)[1], k, filter)

Ranked(c, ranking) ==
    IF ranking.raised THEN [c EXCEPT !.pc = "done", !.raised = TRUE]
    ELSE IF ranking.results = <<>> THEN [c EXCEPT !.pc = "done"]
    ELSE [c EXCEPT !.pc = "format",
                   !.top = [j \in 1..Len(ranking.results) |->
                               [idx   |-> ranking.results[j].id,
                                score |-> ranking.results[j].score]]]

(* embeddings = np.array(self.memory_store['embeddings']) and the          *)
(* similarities; without a filter the ranking follows at once              *)
SearchCopyEmbeddings ==
    /\ Running
    /\ call.pc = "checked"
    /\ LET snapshot == memory_store.embeddings
       IN  IF snapshot = <<>>
           THEN call' = [call EXCEPT !.pc = "done", !.raised = TRUE]
           ELSE IF IsTruthy(call.filter)
           THEN call' = [call EXCEPT !.pc = "filter", !.snapshot = snapshot]
           ELSE \E ranking \in RankSnapshot(snapshot, <<>>, call.query, call.k, call.filter) :
                   call' = Ranked([call EXCEPT !.snapshot = snapshot], ranking)
    /\ UNCHANGED <<memory_store, conversation_history, events>>

(* for i, metadata in enumerate(self.memory_store['metadatas']), then the  *)
(* ranking of the positions that match                                     *)
SearchFilter ==
    /\ Running
    /\ call.pc = "filter"
    /\ \E ranking \in RankSnapshot(call.snapshot, memory_store.metadatas,
                                   call.query, call.k, call.filter) :
           call' = Ranked(call, ranking)
    /\ UNCHANGED <<memory_store, conversation_history, events>>

(* one read of self.memory_store[...][original_idx] for the result being   *)
(* formatted; an index beyond the list raises IndexError                   *)
SearchReadEntry ==
    /\ Running
    /\ call.pc = "format"
    /\ LET original_idx == call.top[call.at].idx
           key == ResultKeys[call.key]
           list == memory_store[ListOfKey[key]]
       IN  IF original_idx > Len(list)
           THEN call' = [call EXCEPT !.pc = "done", !.raised = TRUE, !.results = <<>>]
           ELSE LET read == [call.partial EXCEPT ![key] = list[original_idx],
                                                 !.score = call.top[call.at].score]
                IN  IF call.key < Len(ResultKeys)
                    THEN call' = [call EXCEPT !.partial = read, !.key = @ + 1]
                    ELSE call' = [call EXCEPT
                                    !.results = Append(@, read),
                                    !.partial = NoPartial,
                                    !.key = 1,
                                    !.at = @ + 1,
                                    !.pc = IF call.at = Len(call.top) THEN "done"
                                           ELSE "format"]
    /\ UNCHANGED <<memory_store, conversation_history, events>>

(* both calls have returned *)
BothReturn ==
    /\ Running
    /\ call.pc = "done"
    /\ call.written = Len(StoreLists)
    /\ call' = Idle
    /\ UNCHANGED <<memory_store, conversation_history, events>>

(* a call made alone returns *)
ReturnAlone == ~Running /\ Return

NextConcurrent ==
    \/ AddStored \/ Clear \/ ReturnAlone
    \/ StartAdd \/ StartDelete \/ WriteStep
    \/ SearchCheckEmpty \/ SearchCopyEmbeddings \/ SearchFilter \/ SearchReadEntry
    \/ BothReturn

SpecConcurrent == Init /\ [][NextConcurrent]_vars

(* C29: with one add_documents or delete in progress, a concurrent search  *)
(* does not raise and returns what a search of the collection before the   *)
(* write, or of the collection after it, returns.                          *)
C29_SearchSeesBeforeOrAfter ==
    (Running /\ call.pc = "done") =>
        /\ ~call.raised
        /\ Returned(call.results) \in
              search(call.before, call.query, call.k, call.filter)
              \cup search(call.after, call.query, call.k, call.filter)


-----------------------------------------------------------------------------
(* SpecProvider: LLMProvider(provider, model) followed by generate, for    *)
(* provider names in any letter case and with the openai and anthropic     *)
(* packages installed or not                                               *)

ProviderNames == {"openai", "OpenAI", "OPENAI", "anthropic", "Anthropic",
                  "ollama", "Ollama", "mock", "Mock", "gpt4all"}

(* str.lower() of a provider name *)
Lower(name) ==
    CASE name \in {"openai", "OpenAI", "OPENAI"} -> "openai"
      [] name \in {"anthropic", "Anthropic"}     -> "anthropic"
      [] name \in {"ollama", "Ollama"}           -> "ollama"
      [] name \in {"mock", "Mock"}               -> "mock"
      [] OTHER                                   -> name

(* the dict of default models, .get(provider, 'mock-model') *)
DefaultModel(name) ==
    CASE name = "openai"    -> "gpt-3.5-turbo"
      [] name = "anthropic" -> "claude-3-haiku-20240307"
      [] name = "ollama"    -> "llama2"
      [] name = "mock"      -> "mock-model"
      [] OTHER              -> "mock-model"

Unset == "unset"        \* an attribute __init__ never assigned

(* LLMProvider.__init__: self.provider is lowered, the default model and   *)
(* the client are chosen by the name as it was given                       *)
LLMProvider_init(provider, model, openai_available, anthropic_available) ==
    LET chosen == IF IsSupplied(model) THEN ValueOf(model) ELSE DefaultModel(provider)
        self == [provider |-> Lower(provider), model |-> chosen,
                 client |-> Unset, ollama_base_url |-> Unset]
    IN  IF provider = "openai" /\ openai_available
        THEN [self EXCEPT !.client = "openai.OpenAI"]
        ELSE IF provider = "anthropic" /\ anthropic_available
        THEN [self EXCEPT !.client = "anthropic.Anthropic"]
        ELSE IF provider = "ollama"
        THEN [self EXCEPT !.ollama_base_url = "http://localhost:11434"]
        ELSE [self EXCEPT !.client = None]

(* LLMProvider.generate: the backend chosen by self.provider *)
dispatch(self, openai_available, anthropic_available) ==
    IF self.provider = "openai" /\ openai_available THEN "openai"
    ELSE IF self.provider = "anthropic" /\ anthropic_available THEN "anthropic"
    ELSE IF self.provider = "ollama" THEN "ollama"
    ELSE "mock"

(* what the chosen backend does: self.client.chat... on a client that is   *)
(* None, and self.ollama_base_url when it was never assigned, raise        *)
(* AttributeError before anything is sent                                  *)
generate(self, openai_available, anthropic_available, backend) ==
    LET chosen == dispatch(self, openai_available, anthropic_available)
    IN  IF chosen \in {"openai", "anthropic"} /\ self.client \in {None, Unset}
        THEN Generation("AttributeError", "")
        ELSE IF chosen = "ollama" /\ self.ollama_base_url = Unset
        THEN Generation("AttributeError", "")
        ELSE LLMProvider_generate(chosen, backend)

ProviderCall(op, provider, model, openai_available, anthropic_available, self) ==
    [op |-> op, provider |-> provider, model |-> model,
     openai_available |-> openai_available,
     anthropic_available |-> anthropic_available, self |-> self]

NewProvider ==
    /\ call = Idle
    /\ \E provider \in ProviderNames, model \in {NoArg, Some("custom-model")},
          openai_available \in BOOLEAN, anthropic_available \in BOOLEAN :
          call' = ProviderCall("LLMProvider", provider, model,
                      openai_available, anthropic_available,
                      LLMProvider_init(provider, model,
                                       openai_available, anthropic_available))
    /\ UNCHANGED <<memory_store, conversation_history, events>>

(* LLMProvider(provider, model).generate(prompt) *)
ProviderGenerate ==
    /\ call = Idle
    /\ \E provider \in ProviderNames, model \in {NoArg, Some("custom-model")},
          openai_available \in BOOLEAN, anthropic_available \in BOOLEAN,
          backend \in Backends :
          LET self == LLMProvider_init(provider, model,
                                       openai_available, anthropic_available)
          IN  call' = ProviderCall("provider_generate", provider, model,
                                   openai_available, anthropic_available, self)
                      @@ [backend |-> backend,
                          dispatched |-> dispatch(self, openai_available,
                                                  anthropic_available),
                          result |-> generate(self, openai_available,
                                              anthropic_available, backend)]
    /\ UNCHANGED <<memory_store, conversation_history, events>>

NextProvider == NewProvider \/ ProviderGenerate \/ Return

SpecProvider == Init /\ [][NextProvider]_vars

(* the providers that have a backend of their own, given what is installed *)
IsAvailable(name, openai_available, anthropic_available) ==
    \/ name = "openai" /\ openai_available
    \/ name = "anthropic" /\ anthropic_available
    \/ name = "ollama"

(* C30: for a provider name in any letter case and for unknown names, the  *)
(* backend generate dispatches to is one whose client or base URL and      *)
(* default model the constructor initialised; unknown and unavailable      *)
(* providers fall back to the mock; generate does not fail on an           *)
(* uninitialised backend.                                                  *)
C30_DispatchInitialised ==
    (call.op = "provider_generate") =>
        /\ call.dispatched = "openai" => call.self.client = "openai.OpenAI"
        /\ call.dispatched = "anthropic" => call.self.client = "anthropic.Anthropic"
        /\ call.dispatched = "ollama" => call.self.ollama_base_url # Unset
        /\ (~IsSupplied(call.model) /\ call.dispatched # "mock")
               => call.self.model = DefaultModel(call.dispatched)
        /\ ~IsAvailable(Lower(call.provider), call.openai_available,
                        call.anthropic_available) => call.dispatched = "mock"
        /\ call.result.kind # "AttributeError"

====
